---- MODULE Spec2Model ----
(***************************************************************************)
(* Model of the S3 -> Rekognition -> DynamoDB pipeline of                  *)
(* src/lambda/lambda_handler_beta.py, src/lambda/lambda_handler_prod.py    *)
(* and src/lambda/rekognition_handler.py.                                  *)
(*                                                                         *)
(* Strings that the code inspects (object keys, prefixes, extensions) are  *)
(* sequences of one-character strings, so that startswith, endswith,       *)
(* lower, split and unquote_plus are computed character by character.      *)
(* The two remote services (detect_labels, put_item) are black boxes: each *)
(* call either returns or raises, chosen nondeterministically, and every   *)
(* call is appended to the log `calls`.                                    *)
(***************************************************************************)
EXTENDS Integers, Sequences, FiniteSets, TLC

VARIABLES
    inv,     \* invocation id -> the invocation's handler, event, position and locals
    store,   \* table name -> set of items (the DynamoDB tables)
    calls,   \* log of the calls made to the remote services, in order
    clock    \* the wall clock, in epoch seconds

vars == <<inv, store, calls, clock>>

----------------------------------------------------------------------------
(* Bounds of the model *)

\* longest 'Records' list of a notification
MaxRecords == 2

\* most labels a detect_labels response carries (the code asks for at most 10)
MaxLabels == 2

\* last second the clock reaches
MaxClock == 1

----------------------------------------------------------------------------
(* Character strings *)

s_rekognition_input ==
    <<"r","e","k","o","g","n","i","t","i","o","n","-","i","n","p","u","t">>
s_beta == <<"b","e","t","a">>
s_prod == <<"p","r","o","d">>
s_slash == <<"/">>

\* lambda_handler_beta.py:48
BetaPrefix == s_rekognition_input \o s_slash \o s_beta \o s_slash

\* lambda_handler_prod.py:37
expected_prefix == s_rekognition_input \o s_slash \o s_prod \o s_slash

e_jpg == <<".","j","p","g">>
e_jpeg == <<".","j","p","e","g">>
e_png == <<".","p","n","g">>
e_pdf == <<".","p","d","f">>
e_heic == <<".","h","e","i","c">>

\* lambda_handler_beta.py:57
BetaExtensions == {e_jpg, e_jpeg, e_png}

\* lambda_handler_prod.py:47
ProdExtensions == {e_jpg, e_jpeg, e_png, e_pdf, e_heic}

\* rekognition_handler.py:40
RekExtensions == {e_jpg, e_jpeg, e_png}

UpperChars == <<"A","B","C","D","E","F","G","H","I","J","K","L","M",
                "N","O","P","Q","R","S","T","U","V","W","X","Y","Z">>
LowerChars == <<"a","b","c","d","e","f","g","h","i","j","k","l","m",
                "n","o","p","q","r","s","t","u","v","w","x","y","z">>

\* str.lower() on one character
LowerChar(c) ==
    IF \E n \in 1..26 : UpperChars[n] = c
    THEN LowerChars[CHOOSE n \in 1..26 : UpperChars[n] = c]
    ELSE c

\* str.lower()
Lower(s) == [n \in 1..Len(s) |-> LowerChar(s[n])]

\* str.startswith(p)
StartsWith(s, p) == Len(s) >= Len(p) /\ SubSeq(s, 1, Len(p)) = p

\* str.endswith(x)
EndsWith(s, x) == Len(s) >= Len(x) /\ SubSeq(s, Len(s) - Len(x) + 1, Len(s)) = x

\* str.endswith(tuple of suffixes)
EndsWithAny(s, xs) == \E x \in xs : EndsWith(s, x)

\* the %XX escapes that occur in the keys of the model, <<X, X>> -> character
HexPairs == {<<"2","B">>, <<"2","0">>}
HexChar(h) == IF h = <<"2","B">> THEN "+" ELSE " "

\* urllib.parse.unquote: every %XX escape becomes its character
RECURSIVE unquote(_)
unquote(s) ==
    IF s = <<>> THEN <<>>
    ELSE IF Head(s) = "%" /\ Len(s) >= 3 /\ SubSeq(s, 2, 3) \in HexPairs
         THEN <<HexChar(SubSeq(s, 2, 3))>> \o unquote(SubSeq(s, 4, Len(s)))
         ELSE <<Head(s)>> \o unquote(Tail(s))

\* the key decoded a second time: a '+' that came out of '%2B' becomes ' '
unquote_plus_twice(s) ==
    LET once == unquote([n \in 1..Len(s) |-> IF s[n] = "+" THEN " " ELSE s[n]])
    IN  unquote([n \in 1..Len(once) |-> IF once[n] = "+" THEN " " ELSE once[n]])

\* urllib.parse.unquote_plus: '+' becomes ' ' first, then the escapes are resolved
unquote_plus(s) == unquote([n \in 1..Len(s) |-> IF s[n] = "+" THEN " " ELSE s[n]])

\* str.split('/'): the parts between the separators, empty parts included
RECURSIVE split(_)
split(s) ==
    IF \A n \in 1..Len(s) : s[n] # "/" THEN <<s>>
    ELSE LET p == CHOOSE n \in 1..Len(s) : s[n] = "/" /\ \A m \in 1..(n-1) : s[m] # "/"
         IN  <<SubSeq(s, 1, p - 1)>> \o split(SubSeq(s, p + 1, Len(s)))

----------------------------------------------------------------------------
(* Inputs: the raw (percent-encoded) object keys of the notifications *)

\* rekognition-input/beta/dog.jpg
k_beta_dog == BetaPrefix \o <<"d","o","g">> \o e_jpg
\* rekognition-input/prod/cat.png
k_prod_cat == expected_prefix \o <<"c","a","t">> \o e_png
\* rekognition-input/beta/my+a%2Bb.JPG  (decodes to 'my a+b.JPG')
k_beta_enc == BetaPrefix \o <<"m","y","+","a","%","2","B","b",".","J","P","G">>
\* rekognition-input/beta/notes.txt
k_beta_txt == BetaPrefix \o <<"n","o","t","e","s",".","t","x","t">>
\* single.jpeg
k_single == <<"s","i","n","g","l","e">> \o e_jpeg

RawKeys == {k_beta_dog, k_prod_cat, k_beta_enc, k_beta_txt, k_single}

\* an S3 event record, and the two malformed shapes of one
S3Record(k) == [s3 |-> [bucket |-> [name |-> "imgs"], object |-> [key |-> k]]]
NoBucketName == [s3 |-> [bucket |-> [arn |-> "arn"], object |-> [key |-> k_beta_dog]]]
NoObjectKey == [s3 |-> [bucket |-> [name |-> "imgs"], object |-> [size |-> 1]]]

RecordShapes == {S3Record(k) : k \in RawKeys} \cup {NoBucketName, NoObjectKey}

RECURSIVE SeqsUpTo(_, _)
SeqsUpTo(S, n) ==
    IF n = 0 THEN {<<>>}
    ELSE LET shorter == SeqsUpTo(S, n - 1)
         IN  shorter \cup {Append(q, x) : q \in {r \in shorter : Len(r) = n - 1}, x \in S}

\* the notifications: without a 'Records' list, or with one of up to MaxRecords records
NoRecordsEvent == [detail |-> "none"]
Events == {NoRecordsEvent} \cup {[Records |-> q] : q \in SeqsUpTo(RecordShapes, MaxRecords)}

Handlers == {"beta", "prod", "rekognition"}

----------------------------------------------------------------------------
(* The remote services *)

LabelNames == <<"Dog", "Cat", "Pet">>
\* confidences in thousandths of a percent (93456 is 93.456)
Confidences == <<93456, 88121, 70004>>

\* the n-th label of a detect_labels response
RawLabel(n) == [Name |-> LabelNames[((n - 1) % 3) + 1],
                Confidence |-> Confidences[((n - 1) % 3) + 1]]

\* a detect_labels response carrying n labels; every request gets its own
\* RequestId, here the number of the call
DetectLabelsResponse(n, id) ==
    [Labels |-> [m \in 1..n |-> RawLabel(m)],
     ResponseMetadata |-> [RequestId |-> id]]

\* what a failing call raises
RekognitionError == [type |-> "ClientError", text |-> "rekognition failed"]
DynamoDBError == [type |-> "ClientError", text |-> "dynamodb failed"]

\* str(e)
str(e) == e.text

\* round(x, 2): thousandths to hundredths (no confidence of the model is a tie)
round2(x) == (x + 5) \div 10

\* datetime.isoformat() + 'Z' of the instant t
isoformat_Z(t) == [utc |-> t, suffix |-> "Z"]

\* the table each handler writes to
BetaTable == "beta_results"
ProdTable == "beta_results"
RekTable == "rekognition_results"
Tables == {BetaTable, ProdTable, RekTable}

\* identity of an item in a table: filename together with timestamp
ItemKey(item) == <<item.filename, item.timestamp>>

\* a partial update: a record already stored under the key keeps its labels and
\* the new ones are added after them
put_item_update(table, item) ==
    LET old == {r \in table : ItemKey(r) = ItemKey(item)}
    IN  (table \ old) \cup
        {IF old = {} THEN item
         ELSE [item EXCEPT !.labels = (CHOOSE r \in old : TRUE).labels \o @]}

\* Table.put_item: a full-item replace under the item's key
put_item(table, item) == {r \in table : ItemKey(r) # ItemKey(item)} \cup {item}

\* one entry of the log of remote calls
Call(i, op, n, key, ok) == [inv |-> i, op |-> op, rec |-> n, key |-> key, ok |-> ok]

----------------------------------------------------------------------------
(* Invocations *)

NoResult == [none |-> TRUE]
NoItem == [none |-> TRUE]

\* an invocation of `handler` on `event`, before its first statement; n is the
\* position (from 1) in event['Records'] of the record being processed, the
\* other fields are the handler's local variables
NewInvocation(handler, event) ==
    [handler |-> handler, event |-> event, pc |-> "start", outcome |-> "running",
     result |-> NoResult, n |-> 0, bucket |-> "", key |-> <<>>,
     response |-> DetectLabelsResponse(0, 0), labels |-> <<>>, label_count |-> 0,
     branch |-> <<>>, timestamp |-> isoformat_Z(0), item |-> NoItem]

\* `return {'statusCode': status, 'body': body}`
Return(c, status, body) ==
    [c EXCEPT !.pc = "done", !.outcome = "returned",
              !.result = [statusCode |-> status, body |-> body]]

\* an exception leaves the handler
Escape(c, e) ==
    [c EXCEPT !.pc = "done", !.outcome = "raised", !.result = [raised |-> e.type]]

Init ==
    /\ inv \in [{1} -> {NewInvocation(h, e) : h \in Handlers, e \in Events}]
    /\ store = [t \in Tables |-> {}]
    /\ calls = <<>>
    /\ clock = 0

\* the instants a read of the clock can return: time passes between two reads
Now == {t \in clock..(clock + 1) : t <= MaxClock}

At(i, handler, pc) == inv[i].handler = handler /\ inv[i].pc = pc

----------------------------------------------------------------------------
(* lambda_handler_beta.lambda_handler *)

\* the first exception of lines 34-36, or "none"
BetaExtractError(event) ==
    IF "Records" \notin DOMAIN event THEN "KeyError: 'Records'"
    ELSE IF Len(event.Records) = 0 THEN "IndexError: list index out of range"
    ELSE IF "name" \notin DOMAIN event.Records[1].s3.bucket THEN "KeyError: 'name'"
    ELSE IF "key" \notin DOMAIN event.Records[1].s3.object THEN "KeyError: 'key'"
    ELSE "none"

\* the last record of the list taken in place of the first
BetaExtractLast(i) ==
    /\ At(i, "beta", "start")
    /\ LET c == inv[i]
           last == IF "Records" \in DOMAIN c.event THEN Len(c.event.Records) ELSE 0
           err == IF "Records" \notin DOMAIN c.event THEN "KeyError: 'Records'"
                  ELSE IF last = 0 THEN "IndexError: list index out of range"
                  ELSE IF "name" \notin DOMAIN c.event.Records[last].s3.bucket
                  THEN "KeyError: 'name'"
                  ELSE IF "key" \notin DOMAIN c.event.Records[last].s3.object
                  THEN "KeyError: 'key'"
                  ELSE "none"
       IN  inv' = [inv EXCEPT ![i] =
               IF err # "none"
               THEN Return(c, 400, [error |-> <<"Error parsing S3 event", err>>])
               ELSE [c EXCEPT !.pc = "validate", !.n = last,
                              !.bucket = c.event.Records[last].s3.bucket.name,
                              !.key = unquote_plus(c.event.Records[last].s3.object.key)]]
    /\ UNCHANGED <<store, calls, clock>>

BetaExtract(i) ==
    /\ At(i, "beta", "start")
    /\ LET c == inv[i]
           err == BetaExtractError(c.event)
       IN  inv' = [inv EXCEPT ![i] =
               IF err # "none"
               THEN Return(c, 400, [error |-> <<"Error parsing S3 event", err>>])
               ELSE [c EXCEPT !.pc = "validate", !.n = 1,
                              !.bucket = c.event.Records[1].s3.bucket.name,
                              !.key = unquote_plus(c.event.Records[1].s3.object.key)]]
    /\ UNCHANGED <<store, calls, clock>>

BetaValidate(i) ==
    /\ At(i, "beta", "validate")
    /\ LET c == inv[i]
       IN  inv' = [inv EXCEPT ![i] =
               IF ~StartsWith(c.key, BetaPrefix)
               THEN Return(c, 400, [error |-> <<"Invalid key prefix", c.key>>])
               ELSE IF ~EndsWithAny(Lower(c.key), BetaExtensions)
               THEN Return(c, 400, [error |-> <<"Invalid file type">>])
               ELSE [c EXCEPT !.pc = "detect"]]
    /\ UNCHANGED <<store, calls, clock>>

\* the labels under 90% dropped while formatting, after label_count was taken
BetaLabelsFiltered(response) ==
    SelectSeq([m \in 1..Len(response.Labels) |->
                  [Name |-> response.Labels[m].Name,
                   Confidence |-> round2(response.Labels[m].Confidence)]],
              LAMBDA l : l.Confidence >= 9000)

\* lines 92-97
BetaLabels(response) ==
    [m \in 1..Len(response.Labels) |->
        [Name |-> response.Labels[m].Name,
         Confidence |-> round2(response.Labels[m].Confidence)]]

BetaDetect(i) ==
    /\ At(i, "beta", "detect")
    /\ LET c == inv[i]
       IN  \/ /\ calls' = Append(calls, Call(i, "detect_labels", c.n, c.key, FALSE))
              /\ inv' = [inv EXCEPT ![i] =
                     Return(c, 500, [error |-> <<"Error calling Rekognition",
                                                 str(RekognitionError)>>])]
           \/ \E k \in 0..MaxLabels :
              LET response == DetectLabelsResponse(k, Len(calls) + 1)
              IN  /\ calls' = Append(calls, Call(i, "detect_labels", c.n, c.key, TRUE))
                  /\ inv' = [inv EXCEPT ![i] =
                         [c EXCEPT !.pc = "item", !.response = response,
                                   !.label_count = Len(response.Labels),
                                   !.labels = BetaLabels(response)]]
    /\ UNCHANGED <<store, clock>>

\* lines 104-116
BetaItem(i) ==
    /\ At(i, "beta", "item")
    /\ \E utcnow \in Now :
       LET c == inv[i]
           timestamp == isoformat_Z(utcnow)
       IN  /\ clock' = utcnow
           /\ inv' = [inv EXCEPT ![i] =
               [c EXCEPT !.pc = "put", !.timestamp = timestamp,
                         !.item = [filename |-> c.key, labels |-> c.labels,
                                   timestamp |-> timestamp, branch |-> s_beta,
                                   environment |-> s_beta,
                                   label_count |-> c.label_count,
                                   analysis_method |-> "lambda_s3_trigger",
                                   s3_bucket |-> c.bucket]]]
    /\ UNCHANGED <<store, calls>>

\* the clock read again for the timestamp of the response body
BetaPutClockAgain(i) ==
    /\ At(i, "beta", "put")
    /\ LET c == inv[i]
       IN  \/ /\ calls' = Append(calls, Call(i, "put_item", c.n, c.key, FALSE))
              /\ inv' = [inv EXCEPT ![i] =
                     Return(c, 500, [error |-> <<"Error writing to DynamoDB",
                                                 str(DynamoDBError)>>])]
              /\ UNCHANGED <<store, clock>>
           \/ \E utcnow \in Now :
              /\ calls' = Append(calls, Call(i, "put_item", c.n, c.key, TRUE))
              /\ store' = [store EXCEPT ![BetaTable] = put_item(@, c.item)]
              /\ clock' = utcnow
              /\ inv' = [inv EXCEPT ![i] =
                     Return(c, 200, [message |-> "Image processed successfully",
                                     filename |-> c.key,
                                     label_count |-> c.label_count,
                                     environment |-> s_beta,
                                     timestamp |-> isoformat_Z(utcnow)])]

\* lines 118-146
BetaPut(i) ==
    /\ At(i, "beta", "put")
    /\ LET c == inv[i]
       IN  \/ /\ calls' = Append(calls, Call(i, "put_item", c.n, c.key, FALSE))
              /\ inv' = [inv EXCEPT ![i] =
                     Return(c, 500, [error |-> <<"Error writing to DynamoDB",
                                                 str(DynamoDBError)>>])]
              /\ UNCHANGED store
           \/ /\ calls' = Append(calls, Call(i, "put_item", c.n, c.key, TRUE))
              /\ store' = [store EXCEPT ![BetaTable] = put_item(@, c.item)]
              /\ inv' = [inv EXCEPT ![i] =
                     Return(c, 200, [message |-> "Image processed successfully",
                                     filename |-> c.key,
                                     label_count |-> c.label_count,
                                     environment |-> s_beta,
                                     timestamp |-> c.timestamp])]
    /\ UNCHANGED clock

----------------------------------------------------------------------------
(* lambda_handler_prod.lambda_handler *)

\* the first exception of lines 24-26, or "none"
ProdExtractError(event) ==
    IF "Records" \notin DOMAIN event THEN "KeyError: 'Records'"
    ELSE IF Len(event.Records) = 0 THEN "IndexError: list index out of range"
    ELSE IF "name" \notin DOMAIN event.Records[1].s3.bucket THEN "KeyError: 'name'"
    ELSE IF "key" \notin DOMAIN event.Records[1].s3.object THEN "KeyError: 'key'"
    ELSE "none"

ProdExtract(i) ==
    /\ At(i, "prod", "start")
    /\ LET c == inv[i]
           err == ProdExtractError(c.event)
       IN  inv' = [inv EXCEPT ![i] =
               IF err # "none"
               THEN Return(c, 400, [error |-> <<"Error parsing S3 event", err>>])
               ELSE [c EXCEPT !.pc = "validate", !.n = 1,
                              !.bucket = c.event.Records[1].s3.bucket.name,
                              !.key = unquote_plus(c.event.Records[1].s3.object.key)]]
    /\ UNCHANGED <<store, calls, clock>>

ProdValidate(i) ==
    /\ At(i, "prod", "validate")
    /\ LET c == inv[i]
       IN  inv' = [inv EXCEPT ![i] =
               IF ~StartsWith(c.key, expected_prefix)
               THEN Return(c, 400, [error |-> <<"Invalid key prefix", c.key>>])
               ELSE IF ~EndsWithAny(Lower(c.key), ProdExtensions)
               THEN Return(c, 400, [error |-> <<"Invalid file type", c.key>>])
               ELSE [c EXCEPT !.pc = "detect"]]
    /\ UNCHANGED <<store, calls, clock>>

\* lines 75-78
ProdLabels(response) ==
    [m \in 1..Len(response.Labels) |->
        [Name |-> response.Labels[m].Name,
         Confidence |-> round2(response.Labels[m].Confidence)]]

ProdDetect(i) ==
    /\ At(i, "prod", "detect")
    /\ LET c == inv[i]
       IN  \/ /\ calls' = Append(calls, Call(i, "detect_labels", c.n, c.key, FALSE))
              /\ inv' = [inv EXCEPT ![i] =
                     Return(c, 500, [error |-> <<"Error calling Rekognition",
                                                 str(RekognitionError)>>])]
           \/ \E k \in 0..MaxLabels :
              LET response == DetectLabelsResponse(k, Len(calls) + 1)
              IN  /\ calls' = Append(calls, Call(i, "detect_labels", c.n, c.key, TRUE))
                  /\ inv' = [inv EXCEPT ![i] =
                         [c EXCEPT !.pc = "item", !.response = response,
                                   !.label_count = Len(response.Labels),
                                   !.labels = ProdLabels(response)]]
    /\ UNCHANGED <<store, clock>>

\* `datetime.timezone()` with `datetime` the class datetime.datetime (line 4):
\* the class has no attribute 'timezone'
ProdTimezoneError == [type |-> "AttributeError",
                      text |-> "type object 'datetime.datetime' has no attribute 'timezone'"]

\* line 86, outside every try block: the AttributeError leaves the handler, and
\* lines 87-124 (the item, put_item, the 200 response) are never reached
ProdItem(i) ==
    /\ At(i, "prod", "item")
    /\ inv' = [inv EXCEPT ![i] = Escape(inv[i], ProdTimezoneError)]
    /\ UNCHANGED <<store, calls, clock>>

----------------------------------------------------------------------------
(* rekognition_handler.lambda_handler *)

\* line 19, the default of the ENVIRONMENT setting
ENVIRONMENT == s_beta

\* line 89
RetentionSeconds == 90 * 24 * 60 * 60

KeyError(name) == [type |-> "KeyError", text |-> name]

\* the failure of one record logged and the loop resumed with the next record,
\* in the place of the handler-wide `except`
RekExceptPerRecord(c, e) ==
    IF "Records" \in DOMAIN c.event
    THEN [c EXCEPT !.pc = "loop", !.n = c.n + 1]
    ELSE Return(c, 500, [message |-> "Error processing images", error |-> str(e)])

\* a classifier failure swallowed: the record goes on to the store with no labels
RekExceptSwallowClassifier(c, e) ==
    IF e = RekognitionError
    THEN [c EXCEPT !.pc = "item", !.labels = <<>>, !.branch = ENVIRONMENT]
    ELSE Return(c, 500, [message |-> "Error processing images", error |-> str(e)])

\* the response of the handler-wide `except` with a fixed text in the place of str(e)
RekExceptGenericError(c, e) ==
    Return(c, 500, [message |-> "Error processing images", error |-> "internal error"])

\* lines 113-121: the handler's `except Exception`
RekExcept(c, e) ==
    Return(c, 500, [message |-> "Error processing images", error |-> str(e)])

\* lines 28-32: the loop is entered over event['Records']
RekStart(i) ==
    /\ At(i, "rekognition", "start")
    /\ LET c == inv[i]
       IN  inv' = [inv EXCEPT ![i] =
               IF "Records" \notin DOMAIN c.event
               THEN RekExcept(c, KeyError("'Records'"))
               ELSE [c EXCEPT !.pc = "loop", !.n = 1]]
    /\ UNCHANGED <<store, calls, clock>>

\* `break` in the place of `continue`: the loop is left at the first skipped record
RekBreak(c) == [c EXCEPT !.n = Len(c.event.Records) + 1]

\* line 42: `continue` goes on with the next record
RekContinue(c) == [c EXCEPT !.n = c.n + 1]

\* lines 32-42: the next record is taken, its bucket and key are read and the
\* extension of the key is checked
RekRecord(i) ==
    /\ At(i, "rekognition", "loop")
    /\ inv[i].n <= Len(inv[i].event.Records)
    /\ LET c == inv[i]
           record == c.event.Records[c.n]
           key == unquote_plus(record.s3.object.key)
       IN  inv' = [inv EXCEPT ![i] =
               IF "name" \notin DOMAIN record.s3.bucket
               THEN RekExcept(c, KeyError("'name'"))
               ELSE IF "key" \notin DOMAIN record.s3.object
               THEN RekExcept(c, KeyError("'key'"))
               ELSE IF ~EndsWithAny(Lower(key), RekExtensions)
               THEN RekContinue([c EXCEPT !.bucket = record.s3.bucket.name, !.key = key])
               ELSE [c EXCEPT !.pc = "detect",
                              !.bucket = record.s3.bucket.name, !.key = key]]
    /\ UNCHANGED <<store, calls, clock>>

\* lines 64-69
RekLabels(response) ==
    [m \in 1..Len(response.Labels) |->
        [Name |-> response.Labels[m].Name,
         Confidence |-> round2(response.Labels[m].Confidence)]]

\* the first path segment taken for the branch (path_parts[0])
RekBranchFirstSegment(key) ==
    LET path_parts == split(key)
    IN  IF Len(path_parts) > 1 THEN path_parts[1] ELSE ENVIRONMENT

\* lines 73-74
RekBranch(key) ==
    LET path_parts == split(key)
    IN  IF Len(path_parts) > 1 THEN path_parts[2] ELSE ENVIRONMENT

\* lines 44-74
RekDetect(i) ==
    /\ At(i, "rekognition", "detect")
    /\ LET c == inv[i]
       IN  \/ /\ calls' = Append(calls, Call(i, "detect_labels", c.n, c.key, FALSE))
              /\ inv' = [inv EXCEPT ![i] = RekExcept(c, RekognitionError)]
           \/ \E k \in 0..MaxLabels :
              LET response == DetectLabelsResponse(k, Len(calls) + 1)
              IN  /\ calls' = Append(calls, Call(i, "detect_labels", c.n, c.key, TRUE))
                  /\ inv' = [inv EXCEPT ![i] =
                         [c EXCEPT !.pc = "item", !.response = response,
                                   !.labels = RekLabels(response),
                                   !.branch = RekBranch(c.key)]]
    /\ UNCHANGED <<store, clock>>

\* lines 76-86
RekItem(i) ==
    /\ At(i, "rekognition", "item")
    /\ \E utcnow \in Now :
       LET c == inv[i]
           timestamp == isoformat_Z(utcnow)
       IN  /\ clock' = utcnow
           /\ inv' = [inv EXCEPT ![i] =
               [c EXCEPT !.pc = "ttl", !.timestamp = timestamp,
                         !.item = [filename |-> c.key, labels |-> c.labels,
                                   timestamp |-> timestamp, branch |-> c.branch,
                                   environment |-> ENVIRONMENT,
                                   label_count |-> Len(c.labels),
                                   rekognition_request_id |->
                                       c.response.ResponseMetadata.RequestId]]]
    /\ UNCHANGED <<store, calls>>

\* lines 88-90: the clock is read a second time
RekTtl(i) ==
    /\ At(i, "rekognition", "ttl")
    /\ \E utcnow \in Now :
       LET c == inv[i]
           ttl == utcnow + RetentionSeconds
       IN  /\ clock' = utcnow
           /\ inv' = [inv EXCEPT ![i] =
               [c EXCEPT !.pc = "put", !.item = c.item @@ [ttl |-> ttl]]]
    /\ UNCHANGED <<store, calls>>

\* the table read before the write: a key that is already stored is not written
\* again and the record is passed over
RekPutIfAbsent(i) ==
    /\ At(i, "rekognition", "put")
    /\ LET c == inv[i]
       IN  IF \E r \in store[RekTable] : r.filename = c.key
           THEN /\ inv' = [inv EXCEPT ![i] = [c EXCEPT !.pc = "loop", !.n = c.n + 1]]
                /\ UNCHANGED <<store, calls>>
           ELSE /\ calls' = Append(calls, Call(i, "put_item", c.n, c.key, TRUE))
                /\ store' = [store EXCEPT ![RekTable] = put_item(@, c.item)]
                /\ inv' = [inv EXCEPT ![i] = [c EXCEPT !.pc = "loop", !.n = c.n + 1]]
    /\ UNCHANGED clock

\* lines 92-103
RekPut(i) ==
    /\ At(i, "rekognition", "put")
    /\ LET c == inv[i]
       IN  \/ /\ calls' = Append(calls, Call(i, "put_item", c.n, c.key, FALSE))
              /\ inv' = [inv EXCEPT ![i] = RekExcept(c, DynamoDBError)]
              /\ UNCHANGED store
           \/ /\ calls' = Append(calls, Call(i, "put_item", c.n, c.key, TRUE))
              /\ store' = [store EXCEPT ![RekTable] = put_item(@, c.item)]
              /\ inv' = [inv EXCEPT ![i] = [c EXCEPT !.pc = "loop", !.n = c.n + 1]]
    /\ UNCHANGED clock

\* lines 105-111: the loop is over
RekReturn(i) ==
    /\ At(i, "rekognition", "loop")
    /\ inv[i].n > Len(inv[i].event.Records)
    /\ inv' = [inv EXCEPT ![i] =
           Return(inv[i], 200, [message |-> "Successfully processed images",
                                processed_count |-> Len(inv[i].event.Records)])]
    /\ UNCHANGED <<store, calls, clock>>

----------------------------------------------------------------------------
(* The specification *)

Next ==
    \/ \E i \in DOMAIN inv : BetaExtract(i)
    \/ \E i \in DOMAIN inv : BetaValidate(i)
    \/ \E i \in DOMAIN inv : BetaDetect(i)
    \/ \E i \in DOMAIN inv : BetaItem(i)
    \/ \E i \in DOMAIN inv : BetaPut(i)
    \/ \E i \in DOMAIN inv : ProdExtract(i)
    \/ \E i \in DOMAIN inv : ProdValidate(i)
    \/ \E i \in DOMAIN inv : ProdDetect(i)
    \/ \E i \in DOMAIN inv : ProdItem(i)
    \/ \E i \in DOMAIN inv : RekStart(i)
    \/ \E i \in DOMAIN inv : RekRecord(i)
    \/ \E i \in DOMAIN inv : RekDetect(i)
    \/ \E i \in DOMAIN inv : RekItem(i)
    \/ \E i \in DOMAIN inv : RekTtl(i)
    \/ \E i \in DOMAIN inv : RekPut(i)
    \/ \E i \in DOMAIN inv : RekReturn(i)

Spec == Init /\ [][Next]_vars

\* Two invocations in flight at once, their steps interleaved in every order.
ConcurrentInputs ==
    {<<"beta", [Records |-> <<S3Record(k_beta_dog)>>]>>,
     <<"prod", [Records |-> <<S3Record(k_prod_cat)>>]>>,
     <<"rekognition", [Records |-> <<S3Record(k_single)>>]>>,
     <<"rekognition", [Records |-> <<S3Record(k_beta_txt), S3Record(k_beta_dog)>>]>>}

InitConcurrent ==
    /\ inv \in [{1, 2} -> {NewInvocation(x[1], x[2]) : x \in ConcurrentInputs}]
    /\ store = [t \in Tables |-> {}]
    /\ calls = <<>>
    /\ clock = 0

SpecConcurrent == InitConcurrent /\ [][Next]_vars

----------------------------------------------------------------------------
(* Vocabulary of the properties *)

Invocations == DOMAIN inv

Done(i) == inv[i].pc = "done"

\* invocation i has returned a response with this status code
Returned(i, status) ==
    inv[i].outcome = "returned" /\ inv[i].result.statusCode = status

\* the records of the notification of invocation i
Records(i) == IF "Records" \in DOMAIN inv[i].event THEN inv[i].event.Records ELSE <<>>

\* a record carries its bucket name and its object key
WellFormed(r) == "name" \in DOMAIN r.s3.bucket /\ "key" \in DOMAIN r.s3.object

\* the notification has a non-empty 'Records' list of well-formed records
WellFormedEvent(i) ==
    /\ "Records" \in DOMAIN inv[i].event
    /\ Len(Records(i)) >= 1
    /\ \A n \in 1..Len(Records(i)) : WellFormed(Records(i)[n])

\* the decoded object key of record n of invocation i
DecodedKey(i, n) == unquote_plus(Records(i)[n].s3.object.key)

\* the input prefixes a handler is deployed for; rekognition_handler serves both
\* branches (rekognition_handler.py:72)
RequiredPrefixes(h) ==
    IF h = "beta" THEN {BetaPrefix}
    ELSE IF h = "prod" THEN {expected_prefix}
    ELSE {BetaPrefix, expected_prefix}

AllowedExtensions(h) ==
    IF h = "beta" THEN BetaExtensions
    ELSE IF h = "prod" THEN ProdExtensions
    ELSE RekExtensions

PrefixOK(h, key) == \E p \in RequiredPrefixes(h) : StartsWith(key, p)
ExtensionOK(h, key) == EndsWithAny(Lower(key), AllowedExtensions(h))

\* record n of invocation i is well-formed and its key passes both checks
ValidRecord(i, n) ==
    /\ WellFormed(Records(i)[n])
    /\ PrefixOK(inv[i].handler, DecodedKey(i, n))
    /\ ExtensionOK(inv[i].handler, DecodedKey(i, n))

\* record n of invocation i is well-formed and its key fails a check
InvalidRecord(i, n) ==
    /\ WellFormed(Records(i)[n])
    /\ ~(PrefixOK(inv[i].handler, DecodedKey(i, n))
         /\ ExtensionOK(inv[i].handler, DecodedKey(i, n)))

\* positions in the log of the calls `op` that invocation i made for its record n
CallsFor(i, op, n) ==
    {k \in 1..Len(calls) : calls[k].inv = i /\ calls[k].op = op /\ calls[k].rec = n}

\* positions in the log of all calls of invocation i
CallsOf(i) == {k \in 1..Len(calls) : calls[k].inv = i}

\* every remote call of invocation i so far has succeeded
NoServiceFailure(i) == \A k \in CallsOf(i) : calls[k].ok

\* number of successful put_item calls of invocation i
PutsSucceeded(i) ==
    Cardinality({k \in CallsOf(i) : calls[k].op = "put_item" /\ calls[k].ok})

----------------------------------------------------------------------------
(* Properties *)

\* C1: in every handler, once an invocation has terminated with every remote
\* call succeeding, each record whose decoded key has the required prefix and an
\* allowed extension has been classified exactly once and written exactly once.
\* (Stated for the notifications all of whose records are such records, where no
\* rejection or skip of another record interferes.)
C1_ExactlyOncePerValidEvent ==
    \A i \in Invocations :
        (/\ Done(i) /\ WellFormedEvent(i) /\ NoServiceFailure(i)
         /\ \A n \in 1..Len(Records(i)) : ValidRecord(i, n))
        => \A n \in 1..Len(Records(i)) :
               /\ Cardinality(CallsFor(i, "detect_labels", n)) = 1
               /\ Cardinality(CallsFor(i, "put_item", n)) = 1

\* C2: in every handler and at every position, a record whose decoded key fails
\* the prefix check or the extension check gets no classifier call and no
\* store write.
C2_InvalidKeyNeverCalls ==
    \A i \in Invocations :
        \A n \in 1..Len(Records(i)) :
            InvalidRecord(i, n) =>
                /\ CallsFor(i, "detect_labels", n) = {}
                /\ CallsFor(i, "put_item", n) = {}

C4_ProcessedCountIsPersisted ==
    \A i \in Invocations :
        (inv[i].handler = "rekognition" /\ Returned(i, 200)) =>
            inv[i].result.body.processed_count = PutsSucceeded(i)

\* the notification of invocation i is malformed: no 'Records' list, an empty
\* one, or a record without its bucket name or object key
Malformed(i) == ~WellFormedEvent(i)

\* C5: every invocation on a malformed notification terminates with status 400.
C5_MalformedReturns400 ==
    \A i \in Invocations : (Done(i) /\ Malformed(i)) => Returned(i, 400)

\* C6: an invocation whose notification holds a malformed record, at whatever
\* position, makes no classifier call and no store write at all.
C6_MalformedRecordNoPartialProcessing ==
    \A i \in Invocations :
        (\E n \in 1..Len(Records(i)) : ~WellFormed(Records(i)[n])) =>
            /\ CallsOf(i) = {}
            /\ \A t \in Tables : store[t] = {}

\* C7: in every handler, once a detect_labels call has failed, the invocation
\* has terminated with status 500, no put_item was made for that record, and
\* detect_labels was called exactly once for that record.
C7_ClassifierFailureIs500 ==
    \A k \in 1..Len(calls) :
        (calls[k].op = "detect_labels" /\ ~calls[k].ok) =>
            /\ Done(calls[k].inv)
            /\ Returned(calls[k].inv, 500)
            /\ CallsFor(calls[k].inv, "put_item", calls[k].rec) = {}
            /\ Cardinality(CallsFor(calls[k].inv, "detect_labels", calls[k].rec)) = 1
            /\ \A m \in 1..Len(calls) : m > k => calls[m].inv # calls[k].inv

\* C7 witness: rekognition_handler has returned 500 after the classifier failed
\* on its second record, the first one having been classified and written.
C7_Witness ==
    \E i \in Invocations :
        /\ inv[i].handler = "rekognition" /\ Returned(i, 500)
        /\ \E k \in CallsFor(i, "detect_labels", 2) : ~calls[k].ok
        /\ \E k \in CallsFor(i, "put_item", 1) : calls[k].ok

\* C8: once an invocation has terminated, every record it classified
\* successfully has had exactly one put_item attempt; a failed put_item is the
\* invocation's last call and ends it with status 500.
C8_OneWritePerClassifiedEvent ==
    \A i \in Invocations :
        Done(i) =>
            \A k \in CallsOf(i) :
                /\ (calls[k].op = "detect_labels" /\ calls[k].ok) =>
                       Cardinality(CallsFor(i, "put_item", calls[k].rec)) = 1
                /\ (calls[k].op = "put_item" /\ ~calls[k].ok) =>
                       /\ Returned(i, 500)
                       /\ \A m \in CallsOf(i) : m <= k

\* C9 (its safety part): an invocation that has terminated has returned a
\* response whose status is 200, 400 or 500; no exception has left the handler.
C9_TerminatesWithStatus ==
    \A i \in Invocations :
        Done(i) =>
            /\ inv[i].outcome = "returned"
            /\ inv[i].result.statusCode \in {200, 400, 500}

\* C10: in every item of every table, label_count is the length of labels.
C10_LabelCountIsLength ==
    \A t \in Tables : \A r \in store[t] : r.label_count = Len(r.labels)

\* C10 witness: a table holds an item without labels and an item with the most
\* labels a response carries.
C10_Witness ==
    \E t \in Tables :
        /\ \E r \in store[t] : r.label_count = 0 /\ r.labels = <<>>
        /\ \E r \in store[t] : r.label_count = MaxLabels /\ Len(r.labels) = MaxLabels

\* the epoch second of a timestamp string written by isoformat_Z
EpochOf(timestamp) == timestamp.utc

\* C11: every item of every table carries a ttl, and the ttl is the epoch
\* second of the item's own timestamp plus 7,776,000.
C11_TtlIsTimestampPlus90Days ==
    \A t \in Tables : \A r \in store[t] :
        /\ "ttl" \in DOMAIN r
        /\ r.ttl = EpochOf(r.timestamp) + 7776000

\* C12: in every item of every table, branch is the second '/'-separated
\* segment of the (decoded) key stored as filename when the key has one, and the
\* default environment otherwise; environment is the configured label 'beta'
\* whatever the key.
C12_BranchIsSecondSegment ==
    \A t \in Tables : \A r \in store[t] :
        /\ r.branch = IF Len(split(r.filename)) >= 2
                      THEN split(r.filename)[2]
                      ELSE ENVIRONMENT
        /\ r.environment = ENVIRONMENT

\* C12 witness: rekognition_handler has written 'single.jpeg' with the default
\* branch 'beta' and 'rekognition-input/prod/cat.png' with branch 'prod', both
\* with environment 'beta'.
C12_Witness ==
    /\ \E r \in store[RekTable] :
          r.filename = k_single /\ r.branch = s_beta /\ r.environment = s_beta
    /\ \E r \in store[RekTable] :
          r.filename = k_prod_cat /\ r.branch = s_prod /\ r.environment = s_beta

\* 'rekognition-input/beta/my a+b.JPG', the decoded form of k_beta_enc written out
d_beta_enc == BetaPrefix \o <<"m","y"," ","a","+","b",".","J","P","G">>

\* the decoded form of each raw key of the model (only k_beta_enc has escapes)
LiteralDecoded(raw) == IF raw = k_beta_enc THEN d_beta_enc ELSE raw

\* C13: the key a handler works on after reading a record (the one it
\* validates), the key of every classifier and store call, and every filename in
\* the store are the once-decoded key of the record, never the raw key.
C13_DecodedKeyEverywhere ==
    /\ \A i \in Invocations :
          inv[i].pc \in {"validate", "detect", "item", "ttl", "put"} =>
              inv[i].key = LiteralDecoded(Records(i)[inv[i].n].s3.object.key)
    /\ \A k \in 1..Len(calls) :
          calls[k].key =
              LiteralDecoded(Records(calls[k].inv)[calls[k].rec].s3.object.key)
    /\ \A t \in Tables : \A r \in store[t] :
          /\ r.filename \in {LiteralDecoded(raw) : raw \in RawKeys}
          /\ r.filename # k_beta_enc
          /\ \E k \in 1..Len(calls) :
                calls[k].op = "put_item" /\ calls[k].ok /\ calls[k].key = r.filename

\* C13 witness: the record with the raw key 'rekognition-input/beta/my+a%2Bb.JPG'
\* has been classified and written under 'rekognition-input/beta/my a+b.JPG'.
C13_Witness ==
    /\ \E k \in 1..Len(calls) :
          /\ calls[k].op = "detect_labels" /\ calls[k].key = d_beta_enc
          /\ Records(calls[k].inv)[calls[k].rec].s3.object.key = k_beta_enc
    /\ \E t \in Tables : \E r \in store[t] : r.filename = d_beta_enc

\* C14: in rekognition_handler, a failed detect_labels or put_item call for a
\* record is the last remote call of the invocation (no call for a later
\* record), the invocation has terminated with status 500, and the error of the
\* response is the text of that failure.
C14_FirstFatalErrorAborts ==
    \A i \in Invocations :
        inv[i].handler = "rekognition" =>
            \A k \in CallsOf(i) :
                ~calls[k].ok =>
                    /\ Done(i) /\ Returned(i, 500)
                    /\ \A m \in CallsOf(i) : m <= k /\ calls[m].rec <= calls[k].rec
                    /\ inv[i].result.body.error =
                          IF calls[k].op = "detect_labels"
                          THEN "rekognition failed" ELSE "dynamodb failed"

\* C14 witness: rekognition_handler has returned 500 after put_item failed for
\* its first record, and its second record, with a supported extension, has got
\* no call.
C14_Witness ==
    \E i \in Invocations :
        /\ inv[i].handler = "rekognition" /\ Returned(i, 500)
        /\ \E k \in CallsFor(i, "put_item", 1) : ~calls[k].ok
        /\ Len(Records(i)) >= 2 /\ WellFormed(Records(i)[2])
        /\ ExtensionOK("rekognition", DecodedKey(i, 2))
        /\ CallsFor(i, "detect_labels", 2) = {}

\* C15: among the remote calls of one invocation, the calls for an earlier
\* record all come before the calls for a later record, and a record's put_item
\* comes only after that record's detect_labels has returned successfully: two
\* calls for the same record are the successful detect_labels followed by the
\* put_item.
C15_SequentialInArrivalOrder ==
    \A i \in Invocations :
        /\ \A k, m \in CallsOf(i) :
              k < m =>
                  /\ calls[k].rec <= calls[m].rec
                  /\ calls[k].rec = calls[m].rec =>
                        /\ calls[k].op = "detect_labels" /\ calls[k].ok
                        /\ calls[m].op = "put_item"
        /\ \A m \in CallsOf(i) :
              calls[m].op = "put_item" =>
                  \E k \in CallsFor(i, "detect_labels", calls[m].rec) :
                      k < m /\ calls[k].ok

\* C15 witness: an invocation has classified and written its first record and
\* then classified and written its second record.
C15_Witness ==
    \E i \in Invocations :
        /\ Len(calls) = 4 /\ CallsOf(i) = 1..4
        /\ calls[1].op = "detect_labels" /\ calls[1].rec = 1
        /\ calls[2].op = "put_item" /\ calls[2].rec = 1
        /\ calls[3].op = "detect_labels" /\ calls[3].rec = 2
        /\ calls[4].op = "put_item" /\ calls[4].rec = 2

----------------------------------------------------------------------------
(* An invocation run alone, as a function of its own notification and of the
   outcomes (ok or not) of its own remote calls, in order.  The result is the
   terminal status (0 when an exception leaves the handler, -1 when the run
   needs more outcomes than `oks` holds) and the calls it makes. *)

SoloCall(op, n, key) == [op |-> op, rec |-> n, key |-> key]

\* lambda_handler_beta and lambda_handler_prod alone
SoloFirstRecord(h, event, oks) ==
    IF \/ "Records" \notin DOMAIN event
       \/ Len(event.Records) = 0
       \/ ~WellFormed(event.Records[1])
    THEN [status |-> 400, trace |-> <<>>]
    ELSE LET key == LiteralDecoded(event.Records[1].s3.object.key)
             detect == SoloCall("detect_labels", 1, key)
             put == SoloCall("put_item", 1, key)
         IN  IF ~(PrefixOK(h, key) /\ ExtensionOK(h, key))
             THEN [status |-> 400, trace |-> <<>>]
             ELSE IF Len(oks) < 1 THEN [status |-> -1, trace |-> <<>>]
             ELSE IF ~oks[1] THEN [status |-> 500, trace |-> <<detect>>]
             ELSE IF h = "prod" THEN [status |-> 0, trace |-> <<detect>>]
             ELSE IF Len(oks) < 2 THEN [status |-> -1, trace |-> <<detect>>]
             ELSE [status |-> IF oks[2] THEN 200 ELSE 500, trace |-> <<detect, put>>]

\* the loop of rekognition_handler alone, from record n on, p the next outcome
RECURSIVE SoloLoop(_, _, _, _)
SoloLoop(recs, n, oks, p) ==
    IF n > Len(recs) THEN [status |-> 200, trace |-> <<>>]
    ELSE IF ~WellFormed(recs[n]) THEN [status |-> 500, trace |-> <<>>]
    ELSE LET key == LiteralDecoded(recs[n].s3.object.key)
             detect == SoloCall("detect_labels", n, key)
             put == SoloCall("put_item", n, key)
         IN  IF ~ExtensionOK("rekognition", key) THEN SoloLoop(recs, n + 1, oks, p)
             ELSE IF p > Len(oks) THEN [status |-> -1, trace |-> <<>>]
             ELSE IF ~oks[p] THEN [status |-> 500, trace |-> <<detect>>]
             ELSE IF p + 1 > Len(oks) THEN [status |-> -1, trace |-> <<detect>>]
             ELSE IF ~oks[p + 1] THEN [status |-> 500, trace |-> <<detect, put>>]
             ELSE LET rest == SoloLoop(recs, n + 1, oks, p + 2)
                  IN  [status |-> rest.status, trace |-> <<detect, put>> \o rest.trace]

Solo(h, event, oks) ==
    IF h \in {"beta", "prod"} THEN SoloFirstRecord(h, event, oks)
    ELSE IF "Records" \notin DOMAIN event THEN [status |-> 500, trace |-> <<>>]
    ELSE SoloLoop(event.Records, 1, oks, 1)

\* the remote calls of invocation i, in order
OwnCalls(i) == SelectSeq(calls, LAMBDA c : c.inv = i)

\* the terminal status of invocation i, 0 when an exception left the handler
TerminalStatus(i) ==
    IF inv[i].outcome = "returned" THEN inv[i].result.statusCode ELSE 0

\* C16: with two invocations interleaved, each terminated invocation has the
\* terminal status and has made the sequence of classifier and store calls of
\* its run alone on the same notification with the same call outcomes, and the
\* item it is about to write is built from its own record and its own
\* classifier response only.
C16_ConcurrentInvocationsIndependent ==
    \A i \in Invocations :
        /\ Done(i) =>
              LET own == OwnCalls(i)
                  alone == Solo(inv[i].handler, inv[i].event,
                                [k \in 1..Len(own) |-> own[k].ok])
              IN  /\ TerminalStatus(i) = alone.status
                  /\ [k \in 1..Len(own) |->
                         SoloCall(own[k].op, own[k].rec, own[k].key)] = alone.trace
        /\ inv[i].pc = "put" =>
              /\ inv[i].item.filename =
                     LiteralDecoded(Records(i)[inv[i].n].s3.object.key)
              /\ inv[i].item.label_count = Len(inv[i].response.Labels)
              /\ Len(inv[i].item.labels) = Len(inv[i].response.Labels)
              /\ \A m \in 1..Len(inv[i].item.labels) :
                     inv[i].item.labels[m].Name = inv[i].response.Labels[m].Name

\* C16 witness: two invocations of rekognition_handler on different
\* notifications have both returned 200 after writing to the same table, the
\* calls of one lying between calls of the other.
C16_Witness ==
    \E i, j \in Invocations :
        /\ i # j /\ inv[i].event # inv[j].event
        /\ inv[i].handler = "rekognition" /\ inv[j].handler = "rekognition"
        /\ Returned(i, 200) /\ Returned(j, 200)
        /\ Cardinality(store[RekTable]) >= 2
        /\ \E k, m, l \in 1..Len(calls) :
              k < m /\ m < l /\ calls[k].inv = i /\ calls[m].inv = j /\ calls[l].inv = i

----------------------------------------------------------------------------
\* a stored record without the fields named in `fields`
Without(r, fields) == [f \in DOMAIN r \ fields |-> r[f]]

\* two stored records of the same object with the same labels: two runs of the
\* pipeline on the same record with the same classifier labels
SameRun(r1, r2) == r1.filename = r2.filename /\ r1.labels = r2.labels

\* writing record r to table contents S twice is writing it once
WriteTwiceIsOnce(S, r) ==
    /\ put_item(put_item(S, r), r) = put_item(S, r)
    /\ r \in S => put_item(S, r) = S

----------------------------------------------------------------------------
\* the notification of invocation i cut down to its first record
FirstRecordOnly(i) == [Records |-> <<Records(i)[1]>>]

\* C18: an invocation of lambda_handler_beta or lambda_handler_prod on a
\* notification of one or more records never moves past the first record: it
\* makes at most one classifier call and at most one store write, both for
\* Records[0] and its decoded key, a stored record is the one of Records[0], and
\* its terminal status is the one of the same run on the first record alone,
\* so the later records are neither validated, classified nor persisted.
C18_OnlyFirstRecordProcessed ==
    \A i \in Invocations :
        inv[i].handler \in {"beta", "prod"} /\ Len(Records(i)) >= 1 =>
            /\ inv[i].n <= 1
            /\ Cardinality({k \in CallsOf(i) : calls[k].op = "detect_labels"}) <= 1
            /\ Cardinality({k \in CallsOf(i) : calls[k].op = "put_item"}) <= 1
            /\ \A k \in CallsOf(i) :
                   /\ calls[k].rec = 1
                   /\ calls[k].key = DecodedKey(i, 1)
            /\ \A t \in Tables : \A r \in store[t] : r.filename = DecodedKey(i, 1)
            /\ Done(i) =>
                  LET own == OwnCalls(i)
                  IN  TerminalStatus(i) =
                          Solo(inv[i].handler, FirstRecordOnly(i),
                               [k \in 1..Len(own) |-> own[k].ok]).status

\* C18 witness: lambda_handler_beta has returned 200 on a notification whose
\* second record is valid and names another object, after one classifier call
\* and one write, and nothing is stored for the second record.
C18_Witness ==
    \E i \in Invocations :
        /\ inv[i].handler = "beta" /\ Returned(i, 200)
        /\ Len(Records(i)) >= 2
        /\ ValidRecord(i, 2)
        /\ DecodedKey(i, 2) # DecodedKey(i, 1)
        /\ CallsFor(i, "detect_labels", 1) # {} /\ CallsFor(i, "put_item", 1) # {}
        /\ \A r \in store[BetaTable] : r.filename # DecodedKey(i, 2)

----------------------------------------------------------------------------
\* C19: when an invocation of lambda_handler_beta or lambda_handler_prod has
\* returned 200, the record it built is in its table, its last call is the
\* successful write of that record, and the filename, label_count, environment
\* and timestamp of the response body are those of that record.
C19_ResponseBodyMatchesRecord ==
    \A i \in Invocations :
        inv[i].handler \in {"beta", "prod"} /\ Returned(i, 200) =>
            LET body == inv[i].result.body
                own == OwnCalls(i)
            IN  /\ Len(own) >= 1
                /\ own[Len(own)].op = "put_item" /\ own[Len(own)].ok
                /\ \E r \in store[IF inv[i].handler = "beta" THEN BetaTable ELSE ProdTable] :
                       /\ r = inv[i].item
                       /\ body.filename = r.filename
                       /\ body.label_count = r.label_count
                       /\ body.environment = r.environment
                       /\ body.timestamp = r.timestamp

\* C19 witness: lambda_handler_beta has returned 200 for an object with at
\* least one label, its record is stored, and the body carries the timestamp
\* the record was built with, the first instant of the clock.
C19_Witness ==
    \E i \in Invocations :
        /\ inv[i].handler = "beta" /\ Returned(i, 200)
        /\ inv[i].result.body.label_count >= 1
        /\ inv[i].item \in store[BetaTable]
        /\ inv[i].result.body.timestamp = isoformat_Z(0)

====
